---------------------------- MODULE Spec2Model ----------------------------
(***************************************************************************)
(* A model of the spot-trading bot: the risk sizer (bot/risk_manager.py),  *)
(* the signal evaluator (bot/strategy.py) and the orchestrator             *)
(* (bot/trader.py) with its market-data collaborator (bot/data_fetcher.py) *)
(* and trade log (bot/utils/trade_logger.py).                              *)
(*                                                                         *)
(* Python floats are modelled as exact rationals [n |-> numerator,         *)
(* d |-> denominator] in lowest terms with d > 0, so that the arithmetic   *)
(* of the source is computed, not abstracted.  A float division by zero    *)
(* raises ZeroDivisionError in Python; the operators that can raise        *)
(* return a record that says so.                                           *)
(***************************************************************************)
EXTENDS Integers, Sequences, FiniteSets, TLC

VARIABLES
    max_risk_per_trade_pct, \* RiskManager.max_risk_per_trade_pct (config)
    max_open_positions,     \* RiskManager.max_open_positions (config)
    rsi_min,                \* TradingStrategy.rsi_min (config)
    rsi_max,                \* TradingStrategy.rsi_max (config)
    dry_run,                \* TradingBot.dry_run
    bot_min_notional,       \* TradingBot.min_notional
    bot_step_size,          \* TradingBot.step_size
    position,               \* TradingBot.position: None or a Position
    trade_log,              \* the rows TradeLogger wrote during this iteration
    logged,                 \* how many ENTRY and EXIT rows it wrote so far
    now,                    \* datetime.now(), in minutes
    pc,                     \* where TradingBot.run is
    ticks,                  \* iterations of the loop started so far
    tick,                   \* history: what the current iteration did
    orders,                 \* history: the orders this iteration handed to the exchange
    sells,                  \* history: sell orders executed since the last position opened
    call                    \* a call of a pure function and its result

(***************************************************************************)
(* Rational arithmetic (the float operations the source uses).             *)
(***************************************************************************)
RECURSIVE GCD(_, _)
GCD(a, b) == IF b = 0 THEN a ELSE GCD(b, a % b)

IAbs(x) == IF x < 0 THEN -x ELSE x

R(n, d) ==
    LET g == GCD(IAbs(n), IAbs(d))
        s == IF d < 0 THEN -1 ELSE 1
    IN  [n |-> (s * n) \div g, d |-> (s * d) \div g]

RInt(k) == [n |-> k, d |-> 1]
Zero == RInt(0)
RAdd(a, b) == R(a.n * b.d + b.n * a.d, a.d * b.d)
RSub(a, b) == R(a.n * b.d - b.n * a.d, a.d * b.d)
RMul(a, b) == R(a.n * b.n, a.d * b.d)
RDiv(a, b) == R(a.n * b.d, a.d * b.n)      \* only used with b # Zero
RLt(a, b) == a.n * b.d < b.n * a.d
RLe(a, b) == a.n * b.d <= b.n * a.d
RAbs(a) == [n |-> IAbs(a.n), d |-> a.d]
RFloor(a) == a.n \div a.d                   \* math.floor: towards -infinity

(***************************************************************************)
(* bot/risk_manager.py                                                     *)
(***************************************************************************)
round_to_step_size_ceil(quantity, step_size) ==
    IF step_size = Zero THEN quantity
    ELSE LET factor == RDiv(RInt(1), step_size)
         IN  RDiv(RInt(-RFloor(RMul(RInt(-1), RMul(quantity, factor)))), factor)

\* round_to_step_size rounding to the nearest step instead of down
round_to_step_size_nearest(quantity, step_size) ==
    IF step_size = Zero THEN quantity
    ELSE LET factor == RDiv(RInt(1), step_size)
         IN  RDiv(RInt(RFloor(RAdd(RMul(quantity, factor), R(1, 2)))), factor)

round_to_step_size(quantity, step_size) ==
    IF step_size = Zero THEN quantity
    ELSE LET factor == RDiv(RInt(1), step_size)
         IN  RDiv(RInt(RFloor(RMul(quantity, factor))), factor)

Returned(q) == [raised |-> FALSE, quantity |-> q]
Raised == [raised |-> TRUE, quantity |-> Zero]

\* lines 91-98: the balance check every computed quantity passes through
balance_check_whole_balance(balance, quantity, notional) ==
    IF RLt(balance, notional)
    THEN Returned(Zero)
    ELSE Returned(quantity)

balance_check(balance, quantity, notional) ==
    IF RLt(RMul(balance, R(95, 100)), notional)
    THEN Returned(Zero)
    ELSE Returned(quantity)

\* calculate_position_size without the risk tolerance check of lines 84-89
calculate_position_size_no_tolerance(balance, entry_price, stop_loss, min_notional, step_size) ==
    LET risk_amount == RMul(balance, RDiv(max_risk_per_trade_pct, RInt(100)))
        price_distance == RAbs(RSub(entry_price, stop_loss))
    IN  IF price_distance = Zero THEN Returned(Zero)
        ELSE
        LET quantity == round_to_step_size(RDiv(risk_amount, price_distance), step_size)
            notional == RMul(quantity, entry_price)
        IN  IF RLt(notional, min_notional)
            THEN IF entry_price = Zero \/ balance = Zero THEN Raised
                 ELSE
                 LET quantity2 == round_to_step_size(
                                      RMul(RDiv(min_notional, entry_price), R(101, 100)),
                                      step_size)
                 IN  balance_check(balance, quantity2, RMul(quantity2, entry_price))
            ELSE balance_check(balance, quantity, notional)

\* calculate_position_size without the zero-distance return of lines 57-59:
\* risk_amount / price_distance divides by zero
calculate_position_size_no_distance_check(balance, entry_price, stop_loss, min_notional, step_size) ==
    LET risk_amount == RMul(balance, RDiv(max_risk_per_trade_pct, RInt(100)))
        price_distance == RAbs(RSub(entry_price, stop_loss))
    IN  IF price_distance = Zero THEN Raised
        ELSE
        LET quantity == round_to_step_size(RDiv(risk_amount, price_distance), step_size)
            notional == RMul(quantity, entry_price)
        IN  IF RLt(notional, min_notional)
            THEN IF entry_price = Zero \/ balance = Zero THEN Raised
                 ELSE
                 LET quantity2 == round_to_step_size(
                                      RMul(RDiv(min_notional, entry_price), R(101, 100)),
                                      step_size)
                     actual_risk_pct == RMul(RDiv(RMul(quantity2, price_distance), balance),
                                             RInt(100))
                 IN  IF RLt(RMul(max_risk_per_trade_pct, R(3, 2)), actual_risk_pct)
                     THEN Returned(Zero)
                     ELSE balance_check(balance, quantity2, RMul(quantity2, entry_price))
            ELSE balance_check(balance, quantity, notional)

calculate_position_size(balance, entry_price, stop_loss, min_notional, step_size) ==
    LET risk_amount == RMul(balance, RDiv(max_risk_per_trade_pct, RInt(100)))
        price_distance == RAbs(RSub(entry_price, stop_loss))
    IN  IF price_distance = Zero THEN Returned(Zero)
        ELSE
        LET quantity == round_to_step_size(RDiv(risk_amount, price_distance), step_size)
            notional == RMul(quantity, entry_price)
        IN  IF RLt(notional, min_notional)
            THEN IF entry_price = Zero THEN Raised      \* min_notional / entry_price
                 ELSE
                 LET quantity2 == round_to_step_size(
                                      RMul(RDiv(min_notional, entry_price), R(101, 100)),
                                      step_size)
                     notional2 == RMul(quantity2, entry_price)
                     actual_risk == RMul(quantity2, price_distance)
                 IN  IF balance = Zero THEN Raised      \* actual_risk / balance
                     ELSE
                     LET actual_risk_pct == RMul(RDiv(actual_risk, balance), RInt(100))
                     IN  IF RLt(RMul(max_risk_per_trade_pct, R(3, 2)), actual_risk_pct)
                         THEN Returned(Zero)
                         ELSE balance_check(balance, quantity2, notional2)
            ELSE balance_check(balance, quantity, notional)

(***************************************************************************)
(* bot/strategy.py.  A kline frame is a sequence of bars [close, volume]   *)
(* (the columns the strategy reads); add_indicators adds the indicator     *)
(* columns.  NaN is the one non-finite value a column can hold.  The        *)
(* periods are the configured ones scaled down to frames of a few bars.    *)
(***************************************************************************)
None == [none |-> TRUE]
NaN == [n |-> 0, d |-> 0]
IsNaN(x) == x.d = 0
\* float comparisons: any comparison with NaN is false
FLt(a, b) == ~IsNaN(a) /\ ~IsNaN(b) /\ RLt(a, b)
FLe(a, b) == ~IsNaN(a) /\ ~IsNaN(b) /\ RLe(a, b)

ema_fast == 2
ema_slow == 3
rsi_period == 2
volume_sma == 2
take_profit_pct == R(12, 10)
stop_loss_pct == R(6, 10)
max_duration_minutes == 45

IMax(a, b) == IF a > b THEN a ELSE b

\* a DataFrame is the record [bars |-> its rows]; len(df) and df.iloc[i] (1-based)
len(df) == Len(df.bars)
iloc(df, i) == df.bars[i]

\* df['close'].ewm(span=period, adjust=False).mean() at bar i
RECURSIVE calculate_ema(_, _, _)
calculate_ema(df, period, i) ==
    LET alpha == R(2, period + 1)
    IN  IF i = 1 THEN iloc(df, 1).close
        ELSE RAdd(RMul(RSub(RInt(1), alpha), calculate_ema(df, period, i - 1)),
                  RMul(alpha, iloc(df, i).close))

RECURSIVE RSum(_, _, _)
RSum(f, lo, hi) == IF lo > hi THEN Zero ELSE RAdd(f[hi], RSum(f, lo, hi - 1))

\* series.rolling(window=period).mean() at bar i: NaN until period values are seen
rolling_mean(f, period, i) ==
    IF i < period THEN NaN ELSE RDiv(RSum(f, i - period + 1, i), RInt(period))

\* calculate_rsi at bar i.  delta is NaN at the first bar; where(cond, 0)
\* replaces every value whose condition is false, NaN included, by 0.
calculate_rsi(df, period, i) ==
    LET delta == [k \in 1..len(df) |->
                     IF k = 1 THEN NaN ELSE RSub(iloc(df, k).close, iloc(df, k - 1).close)]
        gains == [k \in 1..len(df) |-> IF FLt(Zero, delta[k]) THEN delta[k] ELSE Zero]
        losses == [k \in 1..len(df) |->
                     IF FLt(delta[k], Zero) THEN RSub(Zero, delta[k]) ELSE Zero]
        gain == rolling_mean(gains, period, i)
        loss == rolling_mean(losses, period, i)
    IN  IF IsNaN(gain) \/ IsNaN(loss) THEN NaN
        ELSE IF loss = Zero
             THEN IF gain = Zero THEN NaN      \* 0/0
                  ELSE RInt(100)               \* rs = inf: 100 - 100/inf
             ELSE RSub(RInt(100),
                       RDiv(RInt(100), RAdd(RInt(1), RDiv(gain, loss))))

calculate_volume_sma(df, period, i) ==
    rolling_mean([k \in 1..len(df) |-> iloc(df, k).volume], period, i)

add_indicators(df) ==
    [bars |-> [i \in 1..len(df) |->
        [close |-> iloc(df, i).close,
         volume |-> iloc(df, i).volume,
         ema_fast |-> calculate_ema(df, ema_fast, i),
         ema_slow |-> calculate_ema(df, ema_slow, i),
         rsi |-> calculate_rsi(df, rsi_period, i),
         volume_sma |-> calculate_volume_sma(df, volume_sma, i)]]]

\* check_entry_conditions with the RSI band written as "not outside the band",
\* which a NaN passes
check_entry_conditions_nan_rsi_passes(df_fast, df_slow) ==
    IF df_fast = None \/ df_slow = None THEN FALSE
    ELSE IF len(df_fast) < IMax(ema_slow, IMax(rsi_period, volume_sma)) THEN FALSE
    ELSE
    LET latest_fast == iloc(df_fast, len(df_fast))
        latest_slow == iloc(df_slow, len(df_slow))
    IN  IF IsNaN(latest_fast.ema_fast) \/ IsNaN(latest_fast.ema_slow) THEN FALSE
        ELSE IF IsNaN(latest_slow.ema_fast) \/ IsNaN(latest_slow.ema_slow) THEN FALSE
        ELSE /\ FLt(latest_fast.ema_slow, latest_fast.close)
             /\ FLt(latest_slow.ema_slow, latest_slow.close)
             /\ FLt(latest_fast.ema_slow, latest_fast.ema_fast)
             /\ FLt(latest_slow.ema_slow, latest_slow.ema_fast)
             /\ ~FLt(latest_fast.rsi, rsi_min) /\ ~FLt(rsi_max, latest_fast.rsi)
             /\ FLt(latest_fast.volume_sma, latest_fast.volume)

\* check_entry_conditions without the volume confirmation
check_entry_conditions_no_volume(df_fast, df_slow) ==
    IF df_fast = None \/ df_slow = None THEN FALSE
    ELSE IF len(df_fast) < IMax(ema_slow, IMax(rsi_period, volume_sma)) THEN FALSE
    ELSE
    LET latest_fast == iloc(df_fast, len(df_fast))
        latest_slow == iloc(df_slow, len(df_slow))
    IN  IF IsNaN(latest_fast.ema_fast) \/ IsNaN(latest_fast.ema_slow) THEN FALSE
        ELSE IF IsNaN(latest_slow.ema_fast) \/ IsNaN(latest_slow.ema_slow) THEN FALSE
        ELSE /\ FLt(latest_fast.ema_slow, latest_fast.close)
             /\ FLt(latest_slow.ema_slow, latest_slow.close)
             /\ FLt(latest_fast.ema_slow, latest_fast.ema_fast)
             /\ FLt(latest_slow.ema_slow, latest_slow.ema_fast)
             /\ FLe(rsi_min, latest_fast.rsi) /\ FLe(latest_fast.rsi, rsi_max)

check_entry_conditions(df_fast, df_slow) ==
    IF df_fast = None \/ df_slow = None THEN FALSE
    ELSE IF len(df_fast) < IMax(ema_slow, IMax(rsi_period, volume_sma)) THEN FALSE
    ELSE
    LET latest_fast == iloc(df_fast, len(df_fast))
        latest_slow == iloc(df_slow, len(df_slow))
    IN  IF IsNaN(latest_fast.ema_fast) \/ IsNaN(latest_fast.ema_slow) THEN FALSE
        ELSE IF IsNaN(latest_slow.ema_fast) \/ IsNaN(latest_slow.ema_slow) THEN FALSE
        ELSE /\ FLt(latest_fast.ema_slow, latest_fast.close)
             /\ FLt(latest_slow.ema_slow, latest_slow.close)
             /\ FLt(latest_fast.ema_slow, latest_fast.ema_fast)
             /\ FLt(latest_slow.ema_slow, latest_slow.ema_fast)
             /\ FLe(rsi_min, latest_fast.rsi) /\ FLe(latest_fast.rsi, rsi_max)
             /\ FLt(latest_fast.volume_sma, latest_fast.volume)

check_emergency_exit(df_fast) ==
    IF df_fast = None THEN FALSE
    ELSE IF len(df_fast) < 2 THEN FALSE
    ELSE LET latest == iloc(df_fast, len(df_fast))
             previous == iloc(df_fast, len(df_fast) - 1)
         IN  /\ FLe(previous.ema_slow, previous.ema_fast)
             /\ FLt(latest.ema_fast, latest.ema_slow)

\* calculate_tp_sl with the two percentages exchanged
calculate_tp_sl_swapped(entry_price) ==
    [take_profit |-> RMul(entry_price, RAdd(RInt(1), RDiv(stop_loss_pct, RInt(100)))),
     stop_loss |-> RMul(entry_price, RSub(RInt(1), RDiv(take_profit_pct, RInt(100))))]

calculate_tp_sl(entry_price) ==
    [take_profit |-> RMul(entry_price, RAdd(RInt(1), RDiv(take_profit_pct, RInt(100)))),
     stop_loss |-> RMul(entry_price, RSub(RInt(1), RDiv(stop_loss_pct, RInt(100))))]

\* should_exit looking at the duration before the price levels
should_exit_time_first(current_price, entry_price, duration_minutes, df_fast) ==
    LET tp_sl == calculate_tp_sl(entry_price)
    IN  IF duration_minutes >= max_duration_minutes
        THEN [exit |-> TRUE, reason |-> "TIME_EXIT"]
        ELSE IF RLe(current_price, tp_sl.stop_loss)
             THEN [exit |-> TRUE, reason |-> "STOP_LOSS"]
        ELSE IF RLe(tp_sl.take_profit, current_price)
             THEN [exit |-> TRUE, reason |-> "TAKE_PROFIT"]
        ELSE IF check_emergency_exit(df_fast)
             THEN [exit |-> TRUE, reason |-> "EMERGENCY_EXIT"]
        ELSE [exit |-> FALSE, reason |-> ""]

should_exit(current_price, entry_price, duration_minutes, df_fast) ==
    LET tp_sl == calculate_tp_sl(entry_price)
    IN  IF RLe(current_price, tp_sl.stop_loss) THEN [exit |-> TRUE, reason |-> "STOP_LOSS"]
        ELSE IF RLe(tp_sl.take_profit, current_price)
             THEN [exit |-> TRUE, reason |-> "TAKE_PROFIT"]
        ELSE IF duration_minutes >= max_duration_minutes
             THEN [exit |-> TRUE, reason |-> "TIME_EXIT"]
        ELSE IF check_emergency_exit(df_fast)
             THEN [exit |-> TRUE, reason |-> "EMERGENCY_EXIT"]
        ELSE [exit |-> FALSE, reason |-> ""]

\* the kline frames get_klines can return
Bar(c, v) == [close |-> RInt(c), volume |-> RInt(v)]
KlinePullback == [bars |-> <<Bar(100, 1), Bar(110, 1), Bar(104, 1), Bar(110, 2)>>]
KlineDrop == [bars |-> <<Bar(100, 1), Bar(90, 1)>>]
KlineRising == [bars |-> <<Bar(100, 1), Bar(101, 1), Bar(102, 2)>>]
Klines == {KlinePullback, KlineDrop, KlineRising}
\* add_indicators(df) of each frame, computed once
IndicatorFrames == [df \in Klines |-> add_indicators(df)]

(***************************************************************************)
(* bot/risk_manager.py: the gates open_position passes through.            *)
(***************************************************************************)
can_open_position(current_positions) == current_positions < max_open_positions

\* validate_trade refusing a notional equal to the balance
validate_trade_below_balance(quantity, price, balance, min_notional) ==
    IF RLe(quantity, Zero) THEN FALSE
    ELSE IF RLe(price, Zero) THEN FALSE
    ELSE LET notional == RMul(quantity, price)
         IN  IF RLt(notional, min_notional) THEN FALSE
             ELSE IF RLe(balance, notional) THEN FALSE
             ELSE TRUE

validate_trade(quantity, price, balance, min_notional) ==
    IF RLe(quantity, Zero) THEN FALSE
    ELSE IF RLe(price, Zero) THEN FALSE
    ELSE LET notional == RMul(quantity, price)
         IN  IF RLt(notional, min_notional) THEN FALSE
             ELSE IF RLt(balance, notional) THEN FALSE
             ELSE TRUE

\* calculate_risk_metrics only feeds the log; what matters is whether its
\* division by entry_price raises
calculate_risk_metrics_raises(entry_price) == entry_price = Zero

(***************************************************************************)
(* bot/utils/trade_logger.py.  A row holds None where the CSV holds ''.    *)
(***************************************************************************)
RECURSIVE Pow10(_)
Pow10(k) == IF k = 0 THEN 1 ELSE 10 * Pow10(k - 1)

\* Python's round(x, ndigits): to the nearest multiple of 10^-ndigits, ties to even
round(x, ndigits) ==
    IF Pow10(ndigits) % x.d = 0 THEN x
    ELSE LET scaled == RMul(x, RInt(Pow10(ndigits)))
             fl == RFloor(scaled)
             twice == 2 * (scaled.n - fl * scaled.d)
             r == IF twice < scaled.d THEN fl
                  ELSE IF twice > scaled.d THEN fl + 1
                  ELSE IF fl % 2 = 0 THEN fl ELSE fl + 1
         IN  R(r, Pow10(ndigits))

log_entry(symbol, price, quantity, side) ==
    [timestamp |-> now, symbol |-> symbol, side |-> side, type |-> "ENTRY",
     entry_price |-> price, exit_price |-> None, quantity |-> quantity,
     pnl |-> None, pnl_pct |-> None, fee |-> None, reason |-> None,
     duration_minutes |-> None]

\* log_exit taking the percentage of the exit price
log_exit_pct_of_exit_price(symbol, entry_price, exit_price, quantity, reason, duration_minutes, fee) ==
    LET pnl == RSub(RMul(RSub(exit_price, entry_price), quantity), fee)
        pnl_pct == IF RLt(Zero, entry_price)
                   THEN RMul(RDiv(RSub(exit_price, entry_price), exit_price), RInt(100))
                   ELSE Zero
    IN  [timestamp |-> now, symbol |-> symbol, side |-> "SELL", type |-> "EXIT",
         entry_price |-> entry_price, exit_price |-> exit_price, quantity |-> quantity,
         pnl |-> round(pnl, 8), pnl_pct |-> round(pnl_pct, 2), fee |-> fee,
         reason |-> reason, duration_minutes |-> round(RInt(duration_minutes), 2)]

log_exit(symbol, entry_price, exit_price, quantity, reason, duration_minutes, fee) ==
    LET pnl == RSub(RMul(RSub(exit_price, entry_price), quantity), fee)
        pnl_pct == IF RLt(Zero, entry_price)
                   THEN RMul(RDiv(RSub(exit_price, entry_price), entry_price), RInt(100))
                   ELSE Zero
    IN  [timestamp |-> now, symbol |-> symbol, side |-> "SELL", type |-> "EXIT",
         entry_price |-> entry_price, exit_price |-> exit_price, quantity |-> quantity,
         pnl |-> round(pnl, 8), pnl_pct |-> round(pnl_pct, 2), fee |-> fee,
         reason |-> reason, duration_minutes |-> round(RInt(duration_minutes), 2)]

(***************************************************************************)
(* bot/trader.py.  A handler is a function of the bot's state and of what  *)
(* the exchange answers to each call it makes.  The state a handler works  *)
(* on is the record [position, trade_log, logged, orders, steps, raised]:  *)
(* steps                                                                   *)
(* lists what the iteration did so far, raised says that an exception left *)
(* the handler.                                                            *)
(***************************************************************************)
SYMBOL == "BTCUSDT"

Step(s, what, how) == [s EXCEPT !.steps = Append(@, <<what, how>>)]

\* TradeLogger.log_trade: the row is appended to the file
log_trade(s, row) ==
    [s EXCEPT !.trade_log = Append(@, row), !.logged[row.type] = @ + 1]

\* the order dict of a response: float(order['price']), float(order['executedQty'])
OrderOf(resp, quantity) ==
    [price |-> resp.price,
     executedQty |-> IF resp.filled THEN quantity ELSE Zero]

\* execute_market_order, but handing the order to the client in dry-run too
execute_market_order_submits_in_dry_run(s, side, quantity, answer) ==
    IF dry_run
    THEN IF answer = None
         THEN [s |-> Step(s, IF side = "BUY" THEN "fetch.buy.price" ELSE "fetch.sell.price",
                          "fail"),
               order |-> None]
         ELSE [s |-> [Step(s, side, "simulated") EXCEPT
                        !.orders = Append(@, [side |-> side, quantity |-> quantity,
                                              real |-> TRUE, filled |-> TRUE,
                                              position_open |-> s.position # None])],
               order |-> [price |-> answer, executedQty |-> quantity]]
    ELSE [s |-> [Step(s, side, IF answer = None THEN "failed" ELSE "filled") EXCEPT
                   !.orders = Append(@, [side |-> side, quantity |-> quantity,
                                         real |-> TRUE, filled |-> answer # None,
                                         position_open |-> s.position # None])],
          order |-> IF answer = None THEN None ELSE OrderOf(answer, quantity)]

\* execute_market_buy / execute_market_sell.  In dry-run the answer is that
\* of get_current_price and the order is simulated (str(price) read back by
\* float() is the same float); otherwise it is that of the exchange client,
\* None when the client raised.
execute_market_order(s, side, quantity, answer) ==
    IF dry_run
    THEN IF answer = None
         THEN [s |-> Step(s, IF side = "BUY" THEN "fetch.buy.price" ELSE "fetch.sell.price",
                          "fail"),
               order |-> None]
         ELSE [s |-> [Step(s, side, "simulated") EXCEPT
                        !.orders = Append(@, [side |-> side, quantity |-> quantity,
                                              real |-> FALSE, filled |-> TRUE,
                                              position_open |-> s.position # None])],
               order |-> [price |-> answer, executedQty |-> quantity]]
    ELSE [s |-> [Step(s, side, IF answer = None THEN "failed" ELSE "filled") EXCEPT
                   !.orders = Append(@, [side |-> side, quantity |-> quantity,
                                         real |-> TRUE, filled |-> answer # None,
                                         position_open |-> s.position # None])],
          order |-> IF answer = None THEN None ELSE OrderOf(answer, quantity)]

execute_market_buy(s, quantity, answer) == execute_market_order(s, "BUY", quantity, answer)
execute_market_sell(s, quantity, answer) == execute_market_order(s, "SELL", quantity, answer)

\* open_position going on to the order whatever the sizer and validate_trade said
open_position_ignores_checks(s, price_answer, balance_answer, order_answer) ==
    LET current_positions == IF s.position # None THEN 1 ELSE 0
    IN  IF ~can_open_position(current_positions) THEN Step(s, "open", "at_max")
        ELSE IF price_answer = None THEN Step(s, "fetch.open.price", "fail")
        ELSE IF balance_answer = None THEN Step(s, "fetch.open.balance", "fail")
        ELSE
        LET current_price == price_answer
            balance == balance_answer
            tp_sl == calculate_tp_sl(current_price)
            sized == calculate_position_size(balance, current_price, tp_sl.stop_loss,
                                             bot_min_notional, bot_step_size)
            quantity == sized.quantity
        IN  IF sized.raised THEN [Step(s, "size", "raised") EXCEPT !.raised = TRUE]
            ELSE
            LET bought == execute_market_buy(
                              Step(Step(s, "size",
                                        IF quantity = Zero THEN "zero" ELSE "nonzero"),
                                   "validate",
                                   IF validate_trade(quantity, current_price, balance,
                                                     bot_min_notional)
                                   THEN "valid" ELSE "invalid"),
                              quantity, order_answer)
                order == bought.order
            IN  IF order = None THEN bought.s
                ELSE log_trade(
                         [Step(bought.s, "open", "opened") EXCEPT
                            !.position = [symbol |-> SYMBOL,
                                          entry_price |-> order.price,
                                          quantity |-> order.executedQty,
                                          entry_time |-> now,
                                          stop_loss |-> tp_sl.stop_loss,
                                          take_profit |-> tp_sl.take_profit]],
                         log_entry(SYMBOL, order.price, order.executedQty, "BUY"))

open_position(s, price_answer, balance_answer, order_answer) ==
    LET current_positions == IF s.position # None THEN 1 ELSE 0
    IN  IF ~can_open_position(current_positions) THEN Step(s, "open", "at_max")
        ELSE IF price_answer = None THEN Step(s, "fetch.open.price", "fail")
        ELSE IF balance_answer = None THEN Step(s, "fetch.open.balance", "fail")
        ELSE
        LET current_price == price_answer
            balance == balance_answer
            tp_sl == calculate_tp_sl(current_price)
            sized == calculate_position_size(balance, current_price, tp_sl.stop_loss,
                                             bot_min_notional, bot_step_size)
            quantity == sized.quantity
        IN  IF sized.raised THEN [Step(s, "size", "raised") EXCEPT !.raised = TRUE]
            ELSE IF quantity = Zero THEN Step(s, "size", "zero")
            ELSE IF ~validate_trade(quantity, current_price, balance, bot_min_notional)
                 THEN Step(Step(s, "size", "nonzero"), "validate", "invalid")
            ELSE IF calculate_risk_metrics_raises(current_price)
                 THEN [s EXCEPT !.raised = TRUE]
            ELSE
            LET bought == execute_market_buy(
                              Step(Step(s, "size", "nonzero"), "validate", "valid"),
                              quantity, order_answer)
                order == bought.order
            IN  IF order = None THEN bought.s
                ELSE log_trade(
                         [Step(bought.s, "open", "opened") EXCEPT
                            !.position = [symbol |-> SYMBOL,
                                          entry_price |-> order.price,
                                          quantity |-> order.executedQty,
                                          entry_time |-> now,
                                          stop_loss |-> tp_sl.stop_loss,
                                          take_profit |-> tp_sl.take_profit]],
                         log_entry(SYMBOL, order.price, order.executedQty, "BUY"))

\* close_position, but clearing the position whatever the sell returned
close_position_clears_on_failure(s, reason, price_answer, order_answer) ==
    IF s.position = None THEN Step(s, "close", "no_position")
    ELSE IF price_answer = None THEN Step(s, "fetch.close.price", "fail")
    ELSE
    LET sold == execute_market_sell(s, s.position.quantity, order_answer)
        order == sold.order
    IN  IF order = None THEN [sold.s EXCEPT !.position = None]
        ELSE IF s.position.entry_price = Zero
             THEN [Step(sold.s, "close", "raised") EXCEPT !.raised = TRUE]
        ELSE [log_trade(Step(sold.s, "close", "closed"),
                        log_exit(SYMBOL, s.position.entry_price, order.price,
                                 s.position.quantity, reason,
                                 now - s.position.entry_time, Zero))
                EXCEPT !.position = None]

\* close_position, but submitting the sell a second time when it failed
close_position_retries_sell(s, reason, price_answer, order_answer) ==
    IF s.position = None THEN Step(s, "close", "no_position")
    ELSE IF price_answer = None THEN Step(s, "fetch.close.price", "fail")
    ELSE
    LET first == execute_market_sell(s, s.position.quantity, order_answer)
        sold == IF first.order = None
                THEN execute_market_sell(first.s, s.position.quantity, order_answer)
                ELSE first
        order == sold.order
    IN  IF order = None THEN sold.s
        ELSE IF s.position.entry_price = Zero
             THEN [Step(sold.s, "close", "raised") EXCEPT !.raised = TRUE]
        ELSE [log_trade(Step(sold.s, "close", "closed"),
                        log_exit(SYMBOL, s.position.entry_price, order.price,
                                 s.position.quantity, reason,
                                 now - s.position.entry_time, Zero))
                EXCEPT !.position = None]

\* close_position, but clearing the position without logging the exit
close_position_without_log(s, reason, price_answer, order_answer) ==
    IF s.position = None THEN Step(s, "close", "no_position")
    ELSE IF price_answer = None THEN Step(s, "fetch.close.price", "fail")
    ELSE
    LET sold == execute_market_sell(s, s.position.quantity, order_answer)
        order == sold.order
    IN  IF order = None THEN sold.s
        ELSE IF s.position.entry_price = Zero
             THEN [Step(sold.s, "close", "raised") EXCEPT !.raised = TRUE]
        ELSE [Step(sold.s, "close", "closed") EXCEPT !.position = None]

close_position(s, reason, price_answer, order_answer) ==
    IF s.position = None THEN Step(s, "close", "no_position")
    ELSE IF price_answer = None THEN Step(s, "fetch.close.price", "fail")
    ELSE
    LET sold == execute_market_sell(s, s.position.quantity, order_answer)
        order == sold.order
    IN  IF order = None THEN sold.s
        ELSE IF s.position.entry_price = Zero
             THEN [Step(sold.s, "close", "raised") EXCEPT !.raised = TRUE] \* pnl_pct, line 311
        ELSE [log_trade(Step(sold.s, "close", "closed"),
                        log_exit(SYMBOL, s.position.entry_price, order.price,
                                 s.position.quantity, reason,
                                 now - s.position.entry_time, Zero))
                EXCEPT !.position = None]

\* the exit decision of check_and_manage_position, lines 347-361
manage_exit(s, current_price, klines_answer, close_price_answer, order_answer) ==
    LET df_fast == IF klines_answer # None THEN IndicatorFrames[klines_answer] ELSE None
        decision == should_exit(current_price, s.position.entry_price,
                                now - s.position.entry_time, df_fast)
        s1 == Step(Step(s, "fetch.manage.klines",
                        IF klines_answer = None THEN "fail" ELSE "ok"),
                   "should_exit", decision.reason)
    IN  IF decision.exit
        THEN close_position(s1, decision.reason, close_price_answer, order_answer)
        ELSE s1

\* check_and_manage_position, but fetching the price before looking at the position
check_and_manage_position_fetch_first(s, price_answer, klines_answer, close_price_answer, order_answer) ==
    IF price_answer = None THEN Step(s, "fetch.manage.price", "fail")
    ELSE IF s.position = None THEN s
    ELSE manage_exit(s, price_answer, klines_answer, close_price_answer, order_answer)

\* check_and_manage_position, but deciding on the entry price when the price fetch failed
check_and_manage_position_stale_price(s, price_answer, klines_answer, close_price_answer, order_answer) ==
    IF s.position = None THEN s
    ELSE IF price_answer = None
         THEN manage_exit(Step(s, "fetch.manage.price", "fail"), s.position.entry_price,
                          klines_answer, close_price_answer, order_answer)
    ELSE manage_exit(s, price_answer, klines_answer, close_price_answer, order_answer)

check_and_manage_position(s, price_answer, klines_answer, close_price_answer, order_answer) ==
    IF s.position = None THEN s
    ELSE IF price_answer = None THEN Step(s, "fetch.manage.price", "fail")
    ELSE manage_exit(s, price_answer, klines_answer, close_price_answer, order_answer)

\* both get_klines calls of check_entry_signal, lines 371-372
fetch_entry_klines(s, fast_answer, slow_answer) ==
    Step(Step(s, "fetch.entry.klines_fast", IF fast_answer = None THEN "fail" ELSE "ok"),
         "fetch.entry.klines_slow", IF slow_answer = None THEN "fail" ELSE "ok")

\* the entry decision of check_entry_signal, lines 378-388
evaluate_entry(s, fast_answer, slow_answer, price_answer, balance_answer, order_answer) ==
    IF check_entry_conditions(IndicatorFrames[fast_answer], IndicatorFrames[slow_answer])
    THEN open_position(Step(s, "entry", "signal"), price_answer, balance_answer, order_answer)
    ELSE Step(s, "entry", "no_signal")

\* check_entry_signal without its look at the position
check_entry_signal_unguarded(s, fast_answer, slow_answer, price_answer, balance_answer, order_answer) ==
    LET s1 == fetch_entry_klines(s, fast_answer, slow_answer)
    IN  IF fast_answer = None \/ slow_answer = None THEN s1
        ELSE evaluate_entry(s1, fast_answer, slow_answer, price_answer, balance_answer,
                            order_answer)

\* check_entry_signal, but giving up only when the fast frame is missing
\* (check_entry_conditions returns False for a missing frame)
check_entry_signal_fast_only(s, fast_answer, slow_answer, price_answer, balance_answer, order_answer) ==
    IF s.position # None THEN s
    ELSE
    LET s1 == fetch_entry_klines(s, fast_answer, slow_answer)
    IN  IF fast_answer = None THEN s1
        ELSE IF slow_answer = None THEN Step(s1, "entry", "no_signal")
        ELSE evaluate_entry(s1, fast_answer, slow_answer, price_answer, balance_answer,
                            order_answer)

check_entry_signal(s, fast_answer, slow_answer, price_answer, balance_answer, order_answer) ==
    IF s.position # None THEN s
    ELSE
    LET s1 == fetch_entry_klines(s, fast_answer, slow_answer)
    IN  IF fast_answer = None \/ slow_answer = None THEN s1
        ELSE evaluate_entry(s1, fast_answer, slow_answer, price_answer, balance_answer,
                            order_answer)

(***************************************************************************)
(* TradingBot.run: the loop, one action per step.  The exchange answers    *)
(* every call with a value or with a failure (None).                       *)
(***************************************************************************)
MaxTicks == 3

Prices == {RInt(100), RInt(102)}
PriceAnswers == Prices \cup {None}
KlineAnswers == Klines \cup {None}
BalanceAnswers == {Zero, RInt(10), RInt(1000), None}
\* a market order's response: the price it reports and whether it reports a fill
OrderResponses == {[price |-> p, filled |-> f] : p \in {Zero, RInt(100), RInt(102)},
                                                 f \in BOOLEAN}
OrderAnswers == IF dry_run THEN PriceAnswers ELSE OrderResponses \cup {None}

NewTick(pos) == [start_position |-> pos, steps |-> <<>>, raised |-> FALSE]
NoCall == [fn |-> "none"]

vars == <<max_risk_per_trade_pct, max_open_positions, rsi_min, rsi_max, dry_run,
          bot_min_notional, bot_step_size, position, trade_log, logged, now, pc, ticks,
          tick, orders, sells, call>>

botVars == <<max_open_positions, rsi_min, rsi_max, dry_run, bot_min_notional,
             bot_step_size, position, trade_log, logged, now, pc, ticks, tick, orders,
             sells>>

configVars == <<max_risk_per_trade_pct, max_open_positions, rsi_min, rsi_max, dry_run,
                bot_min_notional, bot_step_size, call>>

Init ==
    /\ max_risk_per_trade_pct = R(1, 2)
    /\ max_open_positions \in {1, 2}
    /\ rsi_min = RInt(40)
    /\ rsi_max = RInt(60)
    /\ dry_run \in BOOLEAN
    /\ bot_min_notional = RInt(10)
    /\ bot_step_size = R(1, 1000)
    /\ position = None
    /\ trade_log = <<>>
    /\ logged = [ENTRY |-> 0, EXIT |-> 0]
    /\ now = 0
    /\ pc = "manage"
    /\ ticks = 1
    /\ tick = NewTick(None)
    /\ orders = <<>>
    /\ sells = 0
    /\ call = NoCall

BotState ==
    [position |-> position, trade_log |-> trade_log, logged |-> logged, orders |-> orders,
     steps |-> tick.steps, raised |-> FALSE]

Commit(s) ==
    /\ position' = s.position
    /\ trade_log' = s.trade_log
    /\ logged' = s.logged
    /\ orders' = s.orders
    /\ tick' = [tick EXCEPT !.steps = s.steps, !.raised = s.raised]
    /\ sells' = IF \E i \in (Len(tick.steps) + 1)..Len(s.steps) :
                       s.steps[i] = <<"open", "opened">>
                THEN 0
                ELSE sells + Cardinality({i \in (Len(orders) + 1)..Len(s.orders) :
                                             s.orders[i].side = "SELL" /\ s.orders[i].filled})

\* The handler, run with no answer to a call, recorded that call's failure:
\* the call is made.  Only a call that is made gets an answer; the others
\* stay None.
Asks(s, what) ==
    \E i \in (Len(tick.steps) + 1)..Len(s.steps) :
        s.steps[i] \in {<<w, "fail">> : w \in what} \cup {<<w, "failed">> : w \in what}

OrderCall == {"fetch.buy.price", "fetch.sell.price", "BUY", "SELL"}

\* run_iteration without its except clause: the exception leaves the loop
RunIterationManage_uncaught ==
    /\ pc = "manage"
    /\ \E price_answer \in
              IF Asks(check_and_manage_position(BotState, None, None, None, None),
                      {"fetch.manage.price"})
              THEN PriceAnswers ELSE {None} :
       \E klines_answer \in
              IF Asks(check_and_manage_position(BotState, price_answer, None, None, None),
                      {"fetch.manage.klines"})
              THEN KlineAnswers ELSE {None} :
       \E close_price_answer \in
              IF Asks(check_and_manage_position(BotState, price_answer, klines_answer,
                                                None, None), {"fetch.close.price"})
              THEN PriceAnswers ELSE {None} :
       \E order_answer \in
              IF Asks(check_and_manage_position(BotState, price_answer, klines_answer,
                                                close_price_answer, None), OrderCall)
              THEN OrderAnswers ELSE {None} :
          LET s == check_and_manage_position(BotState, price_answer, klines_answer,
                                             close_price_answer, order_answer)
          IN  /\ Commit(s)
              /\ pc' = IF s.raised THEN "stopped" ELSE "entry"
    /\ UNCHANGED <<configVars, now, ticks>>

\* run_iteration, first call; an exception ends the iteration (lines 399-400)
RunIterationManage ==
    /\ pc = "manage"
    /\ \E price_answer \in
              IF Asks(check_and_manage_position(BotState, None, None, None, None),
                      {"fetch.manage.price"})
              THEN PriceAnswers ELSE {None} :
       \E klines_answer \in
              IF Asks(check_and_manage_position(BotState, price_answer, None, None, None),
                      {"fetch.manage.klines"})
              THEN KlineAnswers ELSE {None} :
       \E close_price_answer \in
              IF Asks(check_and_manage_position(BotState, price_answer, klines_answer,
                                                None, None), {"fetch.close.price"})
              THEN PriceAnswers ELSE {None} :
       \E order_answer \in
              IF Asks(check_and_manage_position(BotState, price_answer, klines_answer,
                                                close_price_answer, None), OrderCall)
              THEN OrderAnswers ELSE {None} :
          LET s == check_and_manage_position(BotState, price_answer, klines_answer,
                                             close_price_answer, order_answer)
          IN  /\ Commit(s)
              /\ pc' = IF s.raised THEN "sleep" ELSE "entry"
    /\ UNCHANGED <<configVars, now, ticks>>

\* run_iteration, second call
RunIterationEntry ==
    /\ pc = "entry"
    /\ \E fast_answer \in
              IF Asks(check_entry_signal(BotState, None, None, None, None, None),
                      {"fetch.entry.klines_fast"})
              THEN KlineAnswers ELSE {None} :
       \E slow_answer \in
              IF Asks(check_entry_signal(BotState, fast_answer, None, None, None, None),
                      {"fetch.entry.klines_slow"})
              THEN KlineAnswers ELSE {None} :
       \E price_answer \in
              IF Asks(check_entry_signal(BotState, fast_answer, slow_answer,
                                         None, None, None), {"fetch.open.price"})
              THEN PriceAnswers ELSE {None} :
       \E balance_answer \in
              IF Asks(check_entry_signal(BotState, fast_answer, slow_answer,
                                         price_answer, None, None), {"fetch.open.balance"})
              THEN BalanceAnswers ELSE {None} :
       \E order_answer \in
              IF Asks(check_entry_signal(BotState, fast_answer, slow_answer,
                                         price_answer, balance_answer, None), OrderCall)
              THEN OrderAnswers ELSE {None} :
          Commit(check_entry_signal(BotState, fast_answer, slow_answer, price_answer,
                                    balance_answer, order_answer))
    /\ pc' = "sleep"
    /\ UNCHANGED <<configVars, now, ticks>>

\* time.sleep(loop_interval), then the next iteration starts
Sleep ==
    /\ pc = "sleep"
    /\ ticks < MaxTicks
    /\ \E d \in {0, max_duration_minutes} : now' = now + d
    /\ ticks' = ticks + 1
    /\ tick' = NewTick(position)
    /\ orders' = <<>>
    /\ trade_log' = <<>>
    /\ pc' = "manage"
    /\ UNCHANGED <<configVars, position, logged, sells>>

\* KeyboardInterrupt leaves the loop and reaches run's handler (line 421); the
\* history starts over for what the handler does
Interrupt ==
    /\ pc \in {"manage", "entry", "sleep"}
    /\ pc' = "interrupted"
    /\ tick' = NewTick(position)
    /\ orders' = <<>>
    /\ trade_log' = <<>>
    /\ UNCHANGED <<configVars, position, logged, sells, now, ticks>>

\* run's handler stopping without the close attempt
Shutdown_without_close ==
    /\ pc = "interrupted"
    /\ pc' = "stopped"
    /\ UNCHANGED <<configVars, now, ticks, position, trade_log, logged, orders, tick, sells>>

\* lines 422-429: close any open position, then stop
Shutdown ==
    /\ pc = "interrupted"
    /\ IF position # None
       THEN \E price_answer \in PriceAnswers :
            \E order_answer \in
                   IF Asks(close_position(BotState, "SHUTDOWN", price_answer, None), OrderCall)
                   THEN OrderAnswers ELSE {None} :
               Commit(close_position(Step(BotState, "shutdown", "close"), "SHUTDOWN",
                                     price_answer, order_answer))
       ELSE UNCHANGED <<position, trade_log, logged, orders, tick, sells>>
    /\ pc' = "stopped"
    /\ UNCHANGED <<configVars, now, ticks>>

Next ==
    \/ RunIterationManage
    \/ RunIterationEntry
    \/ Sleep
    \/ Interrupt
    \/ Shutdown

Spec == Init /\ [][Next]_vars

(***************************************************************************)
(* The sizer called on every input of a bounded grid.                      *)
(***************************************************************************)
MaxBalanceK == 4
MaxPrice == 3
MaxStepK == 3

SizerBalances == {0, 5, 1000} \cup {50 * k : k \in 1..MaxBalanceK}
SizerPrices == {RInt(50), RInt(99), RInt(100)} \cup {RInt(k) : k \in 1..MaxPrice}
SizerMinNotionals == {RInt(1), RInt(10)}
SizerStepSizes == {Zero, R(1, 1000), R(1, 10)} \cup {RInt(k) : k \in 1..MaxStepK}
RiskPcts == {R(1, 2), RInt(1), RInt(2)}


SizerInit ==
    /\ max_risk_per_trade_pct \in RiskPcts
    /\ max_open_positions = 1
    /\ rsi_min = RInt(40)
    /\ rsi_max = RInt(60)
    /\ dry_run = TRUE
    /\ bot_min_notional = RInt(10)
    /\ bot_step_size = R(1, 1000)
    /\ position = None
    /\ trade_log = <<>>
    /\ logged = [ENTRY |-> 0, EXIT |-> 0]
    /\ now = 0
    /\ pc = "stopped"
    /\ ticks = 0
    /\ tick = NewTick(None)
    /\ orders = <<>>
    /\ sells = 0
    /\ \E b \in SizerBalances, e \in SizerPrices, s \in SizerPrices,
          m \in SizerMinNotionals, st \in SizerStepSizes :
          call = [fn |-> "calculate_position_size", pc |-> "called",
                  balance |-> RInt(b), entry_price |-> e, stop_loss |-> s,
                  min_notional |-> m, step_size |-> st, result |-> Returned(Zero)]

SizerCall ==
    /\ call.pc = "called"
    /\ call' = [call EXCEPT !.pc = "done",
                 !.result = calculate_position_size(call.balance, call.entry_price,
                                call.stop_loss, call.min_notional, call.step_size)]
    /\ UNCHANGED <<max_risk_per_trade_pct, botVars>>

SizerNext == SizerCall

SpecSizer == SizerInit /\ [][SizerNext]_vars

(***************************************************************************)
(* The pure functions of the risk manager and the strategy, each called    *)
(* once on an input of a bounded grid.                                     *)
(***************************************************************************)
MaxQuantityK == 8

RoundQuantities == {R(k, 8) : k \in 0..MaxQuantityK} \cup {R(101, 1000), R(8333, 1000)}
RoundStepSizes == {Zero, R(1, 1000), R(1, 100), R(1, 10), R(1, 4), RInt(1), RInt(3)}
RoundCalls ==
    {[fn |-> "round_to_step_size", pc |-> "called", quantity |-> q, step_size |-> st]
        : q \in RoundQuantities, st \in RoundStepSizes}

ValidateQuantities == {RInt(-1), Zero, R(1, 10), RInt(1), RInt(10)}
ValidatePrices == {RInt(-1), Zero, RInt(1), RInt(10), RInt(100)}
ValidateBalances == {Zero, RInt(10), RInt(100), RInt(1000)}
ValidateCalls ==
    {[fn |-> "validate_trade", pc |-> "called", quantity |-> q, price |-> p,
      balance |-> b, min_notional |-> m]
        : q \in ValidateQuantities, p \in ValidatePrices, b \in ValidateBalances,
          m \in SizerMinNotionals}

ExitPrices == {RInt(99), R(497, 5), RInt(100), R(506, 5), RInt(102)}
ExitEntryPrices == {Zero, RInt(100)}
ExitDurations == {0, max_duration_minutes - 1, max_duration_minutes, 2 * max_duration_minutes}
ExitFrames == {IndicatorFrames[df] : df \in Klines} \cup {None}
ShouldExitCalls ==
    {[fn |-> "should_exit", pc |-> "called", current_price |-> p, entry_price |-> e,
      duration_minutes |-> d, df_fast |-> df]
        : p \in ExitPrices, e \in ExitEntryPrices, d \in ExitDurations, df \in ExitFrames}

\* frames for check_entry_conditions: those add_indicators computes from klines
\* (two more frames: a short one, and one whose last bars do not move) ...
KlineShortRising == [bars |-> <<Bar(100, 1), Bar(110, 1)>>]
KlineFlatTop == [bars |-> <<Bar(100, 1), Bar(110, 1), Bar(110, 1), Bar(110, 2)>>]
EntryKlines == Klines \cup {KlineShortRising, KlineFlatTop}
ComputedFrames == {add_indicators(df) : df \in EntryKlines}
\* ... and frames of enough bars whose latest row holds any indicator values
MinLookback == IMax(ema_slow, IMax(rsi_period, volume_sma))
Levels == {RInt(1), RInt(2)}
IndicatorLevels == Levels \cup {NaN}
RsiValues == {NaN, RInt(30), RInt(40), RInt(60), RInt(100)}
RowFrame(row) == [bars |-> [i \in 1..MinLookback |-> row]]
FastRowFrames ==
    {RowFrame([close |-> c, volume |-> v, ema_fast |-> ef, ema_slow |-> es, rsi |-> r,
               volume_sma |-> vs])
        : c \in Levels, v \in Levels, ef \in IndicatorLevels, es \in IndicatorLevels,
          r \in RsiValues, vs \in IndicatorLevels}
SlowRowFrames ==
    {RowFrame([close |-> c, volume |-> RInt(1), ema_fast |-> ef, ema_slow |-> es,
               rsi |-> NaN, volume_sma |-> NaN])
        : c \in Levels, ef \in IndicatorLevels, es \in IndicatorLevels}
EntryCall(df_fast, df_slow) ==
    [fn |-> "check_entry_conditions", pc |-> "called", df_fast |-> df_fast,
     df_slow |-> df_slow]
EntryCalls ==
    {EntryCall(f, sl) : f \in ComputedFrames \cup {None}, sl \in ComputedFrames \cup {None}}
    \cup {EntryCall(f, sl) : f \in FastRowFrames, sl \in SlowRowFrames}
RsiMaxima == {RInt(60), RInt(100)}

\* open_position and close_position called on a bot that holds a position
\* or none; the order answer is a price in dry-run, a response otherwise
HeldQuantities == {RInt(2), R(8333, 1000)}
HeldEntryPrices == {RInt(100), RInt(102)}
HeldPosition(entry_price, quantity) ==
    [symbol |-> SYMBOL, entry_price |-> entry_price, quantity |-> quantity,
     entry_time |-> 0, stop_loss |-> calculate_tp_sl(entry_price).stop_loss,
     take_profit |-> calculate_tp_sl(entry_price).take_profit]
HeldPositions == {HeldPosition(e, q) : e \in HeldEntryPrices, q \in HeldQuantities}
HandlerPrices == {RInt(100), RInt(101), RInt(102)}
HandlerOrderAnswers ==
    HandlerPrices \cup {[price |-> p, filled |-> TRUE] : p \in HandlerPrices} \cup {None}
HandlerState(pos) ==
    [position |-> pos, trade_log |-> <<>>,
     logged |-> [ENTRY |-> IF pos # None THEN 1 ELSE 0, EXIT |-> 0],
     orders |-> <<>>, steps |-> <<>>, raised |-> FALSE]
OpenCalls ==
    {[fn |-> "open_position", pc |-> "called", position |-> pos, price_answer |-> p,
      balance_answer |-> b, order_answer |-> o]
        : pos \in HeldPositions \cup {None}, p \in HandlerPrices \cup {None},
          b \in {RInt(1000), None}, o \in HandlerOrderAnswers}
CloseReasons == {"TAKE_PROFIT", "STOP_LOSS", "SHUTDOWN"}
CloseCalls ==
    {[fn |-> "close_position", pc |-> "called", position |-> pos, reason |-> r,
      price_answer |-> p, order_answer |-> o]
        : pos \in HeldPositions \cup {None}, r \in CloseReasons,
          p \in HandlerPrices \cup {None}, o \in HandlerOrderAnswers}

TpSlEntryPrices == {Zero, R(1, 3), RInt(100), RInt(102), RInt(50000)}
TpSlCalls ==
    {[fn |-> "calculate_tp_sl", pc |-> "called", entry_price |-> e] : e \in TpSlEntryPrices}

MaxRsiPeriod == 3
RsiCalls ==
    {[fn |-> "calculate_rsi", pc |-> "called", df |-> df, period |-> n]
        : df \in EntryKlines, n \in 1..MaxRsiPeriod}

HandlerCalls == OpenCalls \cup CloseCalls
PureCalls ==
    RoundCalls \cup ValidateCalls \cup ShouldExitCalls \cup EntryCalls \cup HandlerCalls
    \cup TpSlCalls \cup RsiCalls

PureInit ==
    /\ call \in PureCalls
    /\ max_risk_per_trade_pct = R(1, 2)
    /\ max_open_positions \in IF call.fn = "open_position" THEN {1, 2} ELSE {1}
    /\ rsi_min = RInt(40)
    /\ rsi_max \in IF call.fn = "check_entry_conditions" THEN RsiMaxima ELSE {RInt(60)}
    /\ dry_run \in IF call \notin HandlerCalls THEN {TRUE}
                   ELSE IF call.order_answer = None THEN BOOLEAN
                   ELSE {call.order_answer \in HandlerPrices}
    /\ bot_min_notional = RInt(10)
    /\ bot_step_size = R(1, 1000)
    /\ position = None
    /\ trade_log = <<>>
    /\ logged = [ENTRY |-> 0, EXIT |-> 0]
    /\ now = 0
    /\ pc = "stopped"
    /\ ticks = 0
    /\ tick = NewTick(None)
    /\ orders = <<>>
    /\ sells = 0

Return(fn, result) ==
    /\ call.fn = fn
    /\ call.pc = "called"
    /\ call' = [fn |-> fn, pc |-> "done", args |-> call, result |-> result]
    /\ UNCHANGED <<max_risk_per_trade_pct, botVars>>

CallRoundToStepSize ==
    /\ call.fn = "round_to_step_size"
    /\ Return("round_to_step_size", round_to_step_size(call.quantity, call.step_size))

CallValidateTrade ==
    /\ call.fn = "validate_trade"
    /\ Return("validate_trade",
              validate_trade(call.quantity, call.price, call.balance, call.min_notional))

CallShouldExit ==
    /\ call.fn = "should_exit"
    /\ Return("should_exit", should_exit(call.current_price, call.entry_price,
                                         call.duration_minutes, call.df_fast))

CallCheckEntryConditions ==
    /\ call.fn = "check_entry_conditions"
    /\ Return("check_entry_conditions", check_entry_conditions(call.df_fast, call.df_slow))

CallOpenPosition ==
    /\ call.fn = "open_position"
    /\ Return("open_position",
              open_position(HandlerState(call.position), call.price_answer,
                            call.balance_answer, call.order_answer))

CallClosePosition ==
    /\ call.fn = "close_position"
    /\ Return("close_position",
              close_position(HandlerState(call.position), call.reason, call.price_answer,
                             call.order_answer))

CallCalculateTpSl ==
    /\ call.fn = "calculate_tp_sl"
    /\ Return("calculate_tp_sl", calculate_tp_sl(call.entry_price))

\* the 'rsi' column: calculate_rsi at every bar
CallCalculateRsi ==
    /\ call.fn = "calculate_rsi"
    /\ Return("calculate_rsi",
              [i \in 1..len(call.df) |-> calculate_rsi(call.df, call.period, i)])

PureNext ==
    \/ CallRoundToStepSize
    \/ CallValidateTrade
    \/ CallShouldExit
    \/ CallCheckEntryConditions
    \/ CallOpenPosition
    \/ CallClosePosition
    \/ CallCalculateTpSl
    \/ CallCalculateRsi

SpecPure == PureInit /\ [][PureNext]_vars

(***************************************************************************)
(* Claims about the loop, checked under Spec.                              *)
(***************************************************************************)
Did(what, how) == \E i \in DOMAIN tick.steps : tick.steps[i] = <<what, how>>
DidAny(what) == \E i \in DOMAIN tick.steps : tick.steps[i][1] = what
Ordered(side) == \E i \in DOMAIN orders : orders[i].side = side
Logged(type) == \E i \in DOMAIN trade_log : trade_log[i].type = type
\* tick describes an iteration of the loop (not the shutdown handler)
InLoop == pc \in {"manage", "entry", "sleep"}
OpenCount == IF position # None THEN 1 ELSE 0

\* C1: at most one position is live in every reachable state (every position
\* opened and not yet closed is the one the bot holds), and no buy order is
\* submitted while a position is open.
C1_SinglePosition ==
    /\ logged.ENTRY - logged.EXIT = OpenCount
    /\ \A i \in DOMAIN orders : orders[i].side = "BUY" => ~orders[i].position_open

\* an iteration that bought and holds the position it opened
C1_Witness ==
    /\ pc = "sleep"
    /\ Ordered("BUY")
    /\ position # None
    /\ logged.ENTRY = 2

\* C2 as claimed: an iteration that starts with an open position only manages
\* the exit: it never evaluates entry and never submits a buy order.
C2_ExclusivePhases ==
    (InLoop /\ tick.start_position # None) =>
        /\ ~DidAny("fetch.entry.klines_fast")
        /\ ~DidAny("entry")
        /\ ~Ordered("BUY")

\* C2 as amended: the iteration manages the exit first and evaluates entry
\* only when no position is open after that.  With no position at its start
\* it evaluates no exit and sells nothing; while its position stays open it
\* evaluates no entry and buys nothing; once it closed its position (and no
\* exception ended it) it goes on to evaluate entry in that same iteration.
C2_ManageThenEntry ==
    InLoop =>
        /\ tick.start_position = None =>
              ~DidAny("should_exit") /\ ~DidAny("fetch.manage.price") /\ ~Ordered("SELL")
        /\ (tick.start_position # None /\ ~Did("close", "closed")) =>
              ~DidAny("fetch.entry.klines_fast") /\ ~DidAny("entry") /\ ~Ordered("BUY")
        /\ (pc = "sleep" /\ Did("close", "closed")) => DidAny("fetch.entry.klines_fast")

\* an iteration that closed its position and bought again
C2_Witness ==
    /\ pc = "sleep"
    /\ tick.start_position # None
    /\ Did("close", "closed")
    /\ Did("open", "opened")

C4_EntryNeedsAllData ==
    (InLoop /\ tick.start_position = None) =>
        /\ DidAny("entry") =>
              Did("fetch.entry.klines_fast", "ok") /\ Did("fetch.entry.klines_slow", "ok")
        /\ (\/ Did("fetch.entry.klines_fast", "fail")
            \/ Did("fetch.entry.klines_slow", "fail")
            \/ Did("fetch.open.price", "fail")
            \/ Did("fetch.open.balance", "fail")
            \/ Did("fetch.buy.price", "fail")) =>
              /\ ~Ordered("BUY")
              /\ position = None
              /\ ~Logged("ENTRY")

\* the entry signal fired and the balance fetch failed
C4_Witness ==
    /\ pc = "sleep"
    /\ tick.start_position = None
    /\ Did("entry", "signal")
    /\ Did("fetch.open.balance", "fail")

\* C5: a failed order leaves the position as it was: after a failed buy there
\* is no position and no ENTRY row; after a failed sell the position is the
\* one the iteration (or the shutdown handler) started with, every field
\* unchanged, and there is no EXIT row.
C5_FailedOrderNoChange ==
    /\ (Did("BUY", "failed") \/ Did("fetch.buy.price", "fail")) =>
          position = None /\ ~Did("open", "opened") /\ ~Logged("ENTRY")
    /\ (Did("SELL", "failed") \/ Did("fetch.sell.price", "fail")) =>
          /\ position # None
          /\ position = tick.start_position
          /\ ~Logged("EXIT")

\* the exchange client failed a sell that an exit condition asked for
C5_Witness ==
    /\ pc = "sleep"
    /\ Did("SELL", "failed")
    /\ position # None

\* C14: every buy order is preceded in its iteration, in this order, by a true
\* entry signal, a nonzero result of calculate_position_size and a successful
\* validate_trade; its quantity is one the sizer returned and validate_trade
\* accepted for a price and balance the exchange answered; and the position
\* is recorded only after a buy that succeeded.
StepBefore(what, how, l) == \E i \in 1..(l - 1) : tick.steps[i] = <<what, how>>
C14_BuyAfterSignalSizeValidate ==
    /\ \A l \in DOMAIN tick.steps :
          tick.steps[l][1] = "BUY" =>
             \E i, j, k \in 1..(l - 1) :
                /\ i < j /\ j < k
                /\ tick.steps[i] = <<"entry", "signal">>
                /\ tick.steps[j] = <<"size", "nonzero">>
                /\ tick.steps[k] = <<"validate", "valid">>
    /\ \A i \in DOMAIN orders :
          orders[i].side = "BUY" =>
             /\ DidAny("BUY")
             /\ orders[i].quantity # Zero
             /\ \E p \in Prices, b \in BalanceAnswers \ {None} :
                   LET sized == calculate_position_size(b, p, calculate_tp_sl(p).stop_loss,
                                                        bot_min_notional, bot_step_size)
                   IN  /\ ~sized.raised
                       /\ sized.quantity = orders[i].quantity
                       /\ validate_trade(orders[i].quantity, p, b, bot_min_notional)
    /\ \A l \in DOMAIN tick.steps :
          tick.steps[l] = <<"open", "opened">> =>
             StepBefore("BUY", "filled", l) \/ StepBefore("BUY", "simulated", l)
    /\ (InLoop /\ position # None /\ tick.start_position = None) => Did("open", "opened")

\* a buy the exchange filled, recorded as the position
C14_Witness ==
    /\ pc = "sleep"
    /\ Did("BUY", "filled")
    /\ Did("open", "opened")
    /\ position # None
    /\ position.quantity = orders[Len(orders)].quantity

\* C20 as claimed: the stop_loss and take_profit stored in a live position are
\* its entry_price * (1 - stop_loss_pct/100) and entry_price * (1 + take_profit_pct/100).
C20_LevelsFromEntryPrice ==
    position # None =>
        /\ position.stop_loss =
              RMul(position.entry_price, RSub(RInt(1), RDiv(stop_loss_pct, RInt(100))))
        /\ position.take_profit =
              RMul(position.entry_price, RAdd(RInt(1), RDiv(take_profit_pct, RInt(100))))

\* C6 as claimed: every live position has entry_price > 0 and quantity > 0.
C6_PositivePosition ==
    position # None =>
        RLt(Zero, position.entry_price) /\ RLt(Zero, position.quantity)

(***************************************************************************)
(* Claims about calculate_position_size, checked under SpecSizer.          *)
(***************************************************************************)
SizerDone == call.fn = "calculate_position_size" /\ call.pc = "done"

\* the branch of lines 72-89 is taken: the risk-sized notional is below min_notional
AdjustmentApplied ==
    LET price_distance == RAbs(RSub(call.entry_price, call.stop_loss))
        risk_amount == RMul(call.balance, RDiv(max_risk_per_trade_pct, RInt(100)))
    IN  /\ price_distance # Zero
        /\ RLt(RMul(round_to_step_size(RDiv(risk_amount, price_distance), call.step_size),
                    call.entry_price),
               call.min_notional)

ActualRisk(q) == RMul(q, RAbs(RSub(call.entry_price, call.stop_loss)))

SpecExampleInput ==
    /\ max_risk_per_trade_pct = RInt(1)
    /\ call.balance = RInt(1000)
    /\ call.entry_price = RInt(100)
    /\ call.stop_loss = RInt(99)
    /\ call.min_notional = RInt(10)
    /\ call.step_size = R(1, 1000)

\* C7: a returned quantity never has a notional (quantity * entry_price) above
\* 0.95 * balance, and the example balance=1000, risk 1%, entry=100, stop=99,
\* min_notional=10, step_size=0.001 returns 0.
C7_NotionalWithinReserve ==
    (SizerDone /\ ~call.result.raised) =>
        /\ RLe(RMul(call.result.quantity, call.entry_price),
               RMul(call.balance, R(95, 100)))
        /\ SpecExampleInput => call.result.quantity = Zero

C7_Witness ==
    /\ SizerDone
    /\ SpecExampleInput
    /\ call.result = Returned(Zero)

\* C8: with balance > 0, a nonzero returned quantity has an actual risk
\* quantity * |entry_price - stop_loss| of at most 1.5 * max_risk_per_trade_pct
\* percent of the balance, and when the min-notional adjustment needs more
\* than that the sizer returns 0.
C8_RiskWithinTolerance ==
    (SizerDone /\ RLt(Zero, call.balance)) =>
        /\ ~call.result.raised
        /\ call.result.quantity # Zero =>
              RLe(RMul(ActualRisk(call.result.quantity), RInt(100)),
                  RMul(RMul(max_risk_per_trade_pct, R(3, 2)), call.balance))
        /\ (/\ AdjustmentApplied
            /\ RLt(RMul(RMul(max_risk_per_trade_pct, R(3, 2)), call.balance),
                   RMul(ActualRisk(round_to_step_size(
                            RMul(RDiv(call.min_notional, call.entry_price), R(101, 100)),
                            call.step_size)), RInt(100))))
              => call.result.quantity = Zero

\* the adjustment was applied and the adjusted quantity was returned
C8_Witness ==
    /\ SizerDone
    /\ RLt(Zero, call.balance)
    /\ AdjustmentApplied
    /\ call.result.quantity # Zero
    /\ RLt(RMul(RMul(max_risk_per_trade_pct, RInt(1)), call.balance),
           RMul(ActualRisk(call.result.quantity), RInt(100)))

\* C9: when the min-notional adjustment is not applied, the returned quantity
\* risks at most balance * max_risk_per_trade_pct / 100: rounding to the step
\* size never raises the risk above the configured amount.
C9_RoundingKeepsRisk ==
    (SizerDone /\ ~call.result.raised /\ ~AdjustmentApplied) =>
        RLe(ActualRisk(call.result.quantity),
            RMul(call.balance, RDiv(max_risk_per_trade_pct, RInt(100))))

\* a nonzero quantity that the rounding made smaller than risk_amount / distance
C9_Witness ==
    /\ SizerDone
    /\ ~AdjustmentApplied
    /\ ~call.result.raised
    /\ call.result.quantity # Zero
    /\ RLt(ActualRisk(call.result.quantity),
           RMul(call.balance, RDiv(max_risk_per_trade_pct, RInt(100))))

\* C11: the sizer returns 0 whenever entry_price equals stop_loss, whatever the
\* balance, min_notional and step_size.
C11_ZeroDistanceReturnsZero ==
    (SizerDone /\ call.entry_price = call.stop_loss) => call.result = Returned(Zero)

\* entry_price = stop_loss with a balance that would otherwise size a trade
C11_Witness ==
    /\ SizerDone
    /\ call.entry_price = call.stop_loss
    /\ call.balance = RInt(1000)
    /\ call.result = Returned(Zero)

Done(fn) == call.fn = fn /\ call.pc = "done"

\* C12: for step_size > 0 and quantity >= 0, round_to_step_size returns the
\* largest multiple of step_size not above the quantity: it is <= quantity,
\* an integer multiple of step_size, and > quantity - step_size.
C12_RoundsDownToStep ==
    (/\ Done("round_to_step_size")
     /\ RLt(Zero, call.args.step_size)
     /\ RLe(Zero, call.args.quantity)) =>
        /\ RLe(call.result, call.args.quantity)
        /\ RDiv(call.result, call.args.step_size).d = 1
        /\ RLt(RSub(call.args.quantity, call.args.step_size), call.result)

\* a quantity between two multiples, rounded down to the nonzero one below it
C12_Witness ==
    /\ Done("round_to_step_size")
    /\ RLt(Zero, call.args.step_size)
    /\ RLt(Zero, call.result)
    /\ RLt(call.result, call.args.quantity)

\* C13: validate_trade reports valid exactly when quantity > 0, price > 0,
\* quantity * price >= min_notional and quantity * price <= balance.
C13_ValidateIff ==
    Done("validate_trade") =>
        (call.result <=>
            /\ RLt(Zero, call.args.quantity)
            /\ RLt(Zero, call.args.price)
            /\ RLe(call.args.min_notional, RMul(call.args.quantity, call.args.price))
            /\ RLe(RMul(call.args.quantity, call.args.price), call.args.balance))

\* a valid trade whose notional is the whole balance and the minimum notional
C13_Witness ==
    /\ Done("validate_trade")
    /\ call.result = TRUE
    /\ RMul(call.args.quantity, call.args.price) = call.args.balance
    /\ call.args.balance = call.args.min_notional

\* the four exit conditions on the arguments of a should_exit call
StopLossHolds ==
    RLe(call.args.current_price,
        RMul(call.args.entry_price, RSub(RInt(1), RDiv(stop_loss_pct, RInt(100)))))
TakeProfitHolds ==
    RLe(RMul(call.args.entry_price, RAdd(RInt(1), RDiv(take_profit_pct, RInt(100)))),
        call.args.current_price)
TimeExitHolds == call.args.duration_minutes >= max_duration_minutes
EmergencyExitHolds ==
    /\ call.args.df_fast # None
    /\ len(call.args.df_fast) >= 2
    /\ LET latest == iloc(call.args.df_fast, len(call.args.df_fast))
           previous == iloc(call.args.df_fast, len(call.args.df_fast) - 1)
       IN  /\ RLe(previous.ema_slow, previous.ema_fast)
           /\ RLt(latest.ema_fast, latest.ema_slow)

EntryDone ==
    /\ Done("check_entry_conditions")
    /\ call.args.df_fast # None
    /\ call.args.df_slow # None
LatestFast == iloc(call.args.df_fast, len(call.args.df_fast))
LatestSlow == iloc(call.args.df_slow, len(call.args.df_slow))
\* the six entry conditions of the strategy on the latest rows
TrendHolds ==
    /\ RLt(LatestFast.ema_slow, LatestFast.close)
    /\ RLt(LatestSlow.ema_slow, LatestSlow.close)
    /\ RLt(LatestFast.ema_slow, LatestFast.ema_fast)
    /\ RLt(LatestSlow.ema_slow, LatestSlow.ema_fast)
EmasDefined ==
    /\ ~IsNaN(LatestFast.ema_fast) /\ ~IsNaN(LatestFast.ema_slow)
    /\ ~IsNaN(LatestSlow.ema_fast) /\ ~IsNaN(LatestSlow.ema_slow)
IndicatorsDefined ==
    EmasDefined /\ ~IsNaN(LatestFast.rsi) /\ ~IsNaN(LatestFast.volume_sma)
VolumeHolds == RLt(LatestFast.volume_sma, LatestFast.volume)
RsiHolds == RLe(rsi_min, LatestFast.rsi) /\ RLe(LatestFast.rsi, rsi_max)

\* C16 as claimed: check_entry_conditions returns false whenever the fast or
\* the slow series has fewer bars than max(ema_slow, rsi_period, volume_sma).
C16_ShortHistoryNoSignal ==
    (EntryDone /\ (len(call.args.df_fast) < MinLookback \/ len(call.args.df_slow) < MinLookback))
        => call.result = FALSE

\* C17: check_entry_conditions returns no signal whenever an indicator it
\* needs is undefined on the latest bars: ema_fast or ema_slow of either
\* frame, rsi or volume_sma of the fast frame.
C17_UndefinedIndicatorNoSignal ==
    (EntryDone /\ ~IndicatorsDefined) => call.result = FALSE

\* only the RSI is undefined; every other condition holds
C17_Witness ==
    /\ EntryDone
    /\ len(call.args.df_fast) >= MinLookback
    /\ EmasDefined /\ TrendHolds
    /\ ~IsNaN(LatestFast.volume_sma) /\ VolumeHolds
    /\ IsNaN(LatestFast.rsi)
    /\ call.result = FALSE

\* the average loss over the RSI window of the fast frame's latest bar is zero:
\* none of the last rsi_period closes is below the one before it
ZeroAverageLoss ==
    /\ call.args.df_fast \in ComputedFrames
    /\ len(call.args.df_fast) >= rsi_period
    /\ \A k \in (len(call.args.df_fast) - rsi_period + 1)..len(call.args.df_fast) :
          k > 1 => RLe(iloc(call.args.df_fast, k - 1).close, iloc(call.args.df_fast, k).close)

\* C18 as claimed: when the average loss over the RSI window is zero the RSI
\* is undefined and check_entry_conditions returns no signal, whatever the
\* band [rsi_min, rsi_max], an upper bound of 100 included.
C18_ZeroLossNoSignal ==
    (EntryDone /\ ZeroAverageLoss) =>
        /\ IsNaN(LatestFast.rsi)
        /\ call.result = FALSE

\* C19: with enough bars in both frames and every needed indicator defined,
\* check_entry_conditions returns true exactly when close > ema_slow and
\* ema_fast > ema_slow on both frames, rsi_min <= rsi <= rsi_max and
\* volume > volume_sma on the fast frame.
C19_EntryIff ==
    (/\ EntryDone
     /\ len(call.args.df_fast) >= MinLookback
     /\ len(call.args.df_slow) >= MinLookback
     /\ IndicatorsDefined) =>
        (call.result <=> (TrendHolds /\ RsiHolds /\ VolumeHolds))

\* a signal on latest rows given directly, the RSI on the upper edge of the band
C19_Witness ==
    /\ EntryDone
    /\ call.args.df_fast \in FastRowFrames
    /\ IndicatorsDefined
    /\ LatestFast.rsi = rsi_max
    /\ call.result = TRUE

(***************************************************************************)
(* Claims about interrupts, failures and dry-run, checked under Spec.      *)
(***************************************************************************)
StepCount(what, how) == Cardinality({i \in DOMAIN tick.steps : tick.steps[i] = <<what, how>>})
OrderCount(side) == Cardinality({i \in DOMAIN orders : orders[i].side = side})
FailedStep(st) == st[2] \in {"fail", "failed", "raised"}
FailedInTick == tick.raised \/ \E i \in DOMAIN tick.steps : FailedStep(tick.steps[i])

\* C21: after an interrupt the handler always runs to the end; when it has,
\* a position that was open at the interrupt got exactly one close attempt
\* (one close_position call, at most one sell order), and the bot stopped
\* whether the position was closed or not; with no position open at the
\* interrupt nothing was done and no order was submitted.
C21_InterruptClosesOnce ==
    /\ pc = "interrupted" => ENABLED Shutdown
    /\ pc = "stopped" =>
          IF tick.start_position # None
          THEN /\ StepCount("shutdown", "close") = 1
               /\ OrderCount("SELL") <= 1
               /\ OrderCount("BUY") = 0
               /\ (position = None) <=> Did("close", "closed")
          ELSE /\ orders = <<>>
               /\ tick.steps = <<>>
               /\ position = None

\* the bot stopped although the sell of the close attempt failed
C21_Witness ==
    /\ pc = "stopped"
    /\ tick.start_position # None
    /\ Did("SELL", "failed")
    /\ position # None

\* C22: a failed fetch, a failed order or an exception inside an iteration
\* leaves the bot in the loop: an exception ends the iteration (the bot goes
\* to sleep), and the next iteration can start.
C22_FailureContained ==
    (FailedInTick /\ ~Did("shutdown", "close")) =>
        /\ InLoop
        /\ tick.raised => pc = "sleep"
        /\ (pc = "sleep" /\ ticks < MaxTicks) => ENABLED Sleep

\* an exception was raised in the iteration and the bot sleeps until the next
C22_Witness ==
    /\ pc = "sleep"
    /\ tick.raised
    /\ ticks < MaxTicks

\* C23: in dry-run no order reaches the exchange client, in the loop and in
\* the shutdown handler alike, and the entry price of a position and the exit
\* price of a logged exit are prices that get_current_price returned.
C23_DryRunNoRealOrder ==
    dry_run =>
        /\ \A i \in DOMAIN orders : ~orders[i].real
        /\ position # None => position.entry_price \in Prices
        /\ \A i \in DOMAIN trade_log :
              trade_log[i].type = "EXIT" => trade_log[i].exit_price \in Prices

\* a dry-run bot whose shutdown handler closed the position by a simulated sell
C23_Witness ==
    /\ dry_run
    /\ pc = "stopped"
    /\ Did("shutdown", "close")
    /\ Did("SELL", "simulated")
    /\ position = None

\* C26: an iteration submits at most one sell and at most one buy, an order
\* that failed is the last one of its iteration, no failed call is made a
\* second time, and nothing is ordered after a failed order call.
C26_NoRetryInTick ==
    /\ OrderCount("SELL") <= 1
    /\ OrderCount("BUY") <= 1
    /\ \A i \in DOMAIN orders : ~orders[i].filled => i = Len(orders)
    /\ \A i \in DOMAIN tick.steps :
          tick.steps[i][2] \in {"fail", "failed"} =>
              /\ StepCount(tick.steps[i][1], tick.steps[i][2]) = 1
              /\ tick.steps[i][1] \in OrderCall =>
                    \A j \in (i + 1)..Len(tick.steps) : tick.steps[j][1] \notin OrderCall

\* an iteration whose only order is a sell that failed
C26_Witness ==
    /\ pc = "sleep"
    /\ Len(orders) = 1
    /\ Did("SELL", "failed")
    /\ position # None

(***************************************************************************)
(* TradingBot.__init__: the two symbol metadata lookups of bot/data_fetcher *)
(* and what the constructor keeps of them.  get_exchange_info answers with *)
(* the list of symbols, or raises (an API or network error).               *)
(***************************************************************************)
ApiError == [error |-> TRUE]
DEFAULT_MIN_NOTIONAL == RInt(10)
DEFAULT_STEP_SIZE == R(1, 100000)

\* get_symbol_info: the symbol's dict; None when it is not listed, and None
\* when the client raised (lines 127-132)
get_symbol_info(symbol, exchange_info) ==
    IF exchange_info = ApiError THEN None
    ELSE LET found == {i \in DOMAIN exchange_info.symbols :
                          exchange_info.symbols[i].symbol = symbol}
         IN  IF found = {} THEN None
             ELSE exchange_info.symbols[CHOOSE i \in found : \A j \in found : i <= j]

\* the first filter of the type; f.get(key, default) of it
filter_value(symbol_info, filterType, default) ==
    LET found == {i \in DOMAIN symbol_info.filters :
                     symbol_info.filters[i].filterType = filterType}
    IN  IF found = {} THEN default
        ELSE LET f == symbol_info.filters[CHOOSE i \in found : \A j \in found : i <= j]
             IN  IF f.value = None THEN default ELSE f.value

get_min_notional(symbol, exchange_info) ==
    LET symbol_info == get_symbol_info(symbol, exchange_info)
    IN  IF symbol_info = None THEN DEFAULT_MIN_NOTIONAL
        ELSE filter_value(symbol_info, "NOTIONAL", DEFAULT_MIN_NOTIONAL)

get_step_size(symbol, exchange_info) ==
    LET symbol_info == get_symbol_info(symbol, exchange_info)
    IN  IF symbol_info = None THEN DEFAULT_STEP_SIZE
        ELSE filter_value(symbol_info, "LOT_SIZE", DEFAULT_STEP_SIZE)

MaxFilters == 2
\* a filter whose value key is missing has value None
Filters ==
    {[filterType |-> ft, value |-> v]
        : ft \in {"NOTIONAL", "LOT_SIZE", "PRICE_FILTER"},
          v \in {None, RInt(5), R(1, 1000)}}
FilterLists == UNION {[1..n -> Filters] : n \in 0..MaxFilters}
ExchangeInfoAnswers ==
    {ApiError, [symbols |-> <<>>], [symbols |-> <<[symbol |-> "ETHUSDT", filters |-> <<>>]>>]}
    \cup {[symbols |-> <<[symbol |-> SYMBOL, filters |-> fl]>>] : fl \in FilterLists}

StartupInit ==
    /\ call = [fn |-> "TradingBot", pc |-> "called"]
    /\ max_risk_per_trade_pct = R(1, 2)
    /\ max_open_positions = 1
    /\ rsi_min = RInt(40)
    /\ rsi_max = RInt(60)
    /\ dry_run \in BOOLEAN
    /\ bot_min_notional = None
    /\ bot_step_size = None
    /\ position = None
    /\ trade_log = <<>>
    /\ logged = [ENTRY |-> 0, EXIT |-> 0]
    /\ now = 0
    /\ pc = "init"
    /\ ticks = 0
    /\ tick = NewTick(None)
    /\ orders = <<>>
    /\ sells = 0

\* lines 89-91, one get_exchange_info call in each lookup; run starts next
TradingBot_init ==
    /\ pc = "init"
    /\ \E min_notional_answer \in ExchangeInfoAnswers :
       \E step_size_answer \in ExchangeInfoAnswers :
          /\ bot_min_notional' = get_min_notional(SYMBOL, min_notional_answer)
          /\ bot_step_size' = get_step_size(SYMBOL, step_size_answer)
          /\ call' = [fn |-> "TradingBot", pc |-> "done",
                      min_notional_answer |-> min_notional_answer,
                      step_size_answer |-> step_size_answer]
    /\ pc' = "manage"
    /\ UNCHANGED <<max_risk_per_trade_pct, max_open_positions, rsi_min, rsi_max, dry_run,
                   position, trade_log, logged, now, ticks, tick, orders, sells>>

StartupNext == TradingBot_init

SpecStartup == StartupInit /\ [][StartupNext]_vars

\* the constructor returned a bot
Constructed == call.fn = "TradingBot" /\ call.pc = "done"

\* C24: a bot is constructed only when neither symbol metadata lookup failed
\* with an API or network error: after such a failure startup does not go on
\* with the default min_notional or step_size.
C24_DefaultsOnlyWhenNotFound ==
    Constructed =>
        /\ call.min_notional_answer # ApiError
        /\ call.step_size_answer # ApiError

(***************************************************************************)
(* Claims about open_position, close_position, calculate_tp_sl and         *)
(* calculate_rsi called once, checked under SpecPure.                      *)
(***************************************************************************)
\* C25: open_position called on a bot that holds a position ends with an
\* exception (a flagged invariant violation), never with a normal return.
C25_OpenWithLivePositionIsError ==
    (Done("open_position") /\ call.args.position # None) => call.result.raised

\* close_position sold, logged the exit and cleared the position
Closed == Done("close_position") /\ call.result.trade_log # <<>>
ExitRow == call.result.trade_log[Len(call.result.trade_log)]
\* the price of the sell: the simulated one in dry-run, the response's otherwise
SoldAt ==
    IF call.args.order_answer \in HandlerPrices THEN call.args.order_answer
    ELSE call.args.order_answer.price
ExactPnl == RMul(RSub(SoldAt, call.args.position.entry_price), call.args.position.quantity)
ExactPnlPct ==
    RMul(RDiv(RSub(SoldAt, call.args.position.entry_price), call.args.position.entry_price),
         RInt(100))
\* y has at most k decimals and is within half a unit of the last one from x
RoundedTo(y, x, k) ==
    /\ Pow10(k) % y.d = 0
    /\ RLe(RAbs(RSub(y, x)), R(1, 2 * Pow10(k)))

\* C27 as stated: the exit event of a successful close carries exactly
\* pnl = (exit_price - entry_price) * quantity and
\* pnl_pct = (exit_price - entry_price) / entry_price * 100.
C27_ExitPnlExact ==
    Closed => /\ ExitRow.pnl = ExactPnl
              /\ ExitRow.pnl_pct = ExactPnlPct

\* C27: the exit event of a successful close is that of the position closed
\* at the price of the sell, with fee 0, and carries
\* (exit_price - entry_price) * quantity rounded to 8 decimals as pnl and
\* (exit_price - entry_price) / entry_price * 100 rounded to 2 decimals as
\* pnl_pct; entry 100, exit 101, quantity 2 give pnl 2 and pnl_pct 1.
C27_ExitPnlRounded ==
    Closed =>
        /\ ExitRow.type = "EXIT"
        /\ ExitRow.entry_price = call.args.position.entry_price
        /\ ExitRow.exit_price = SoldAt
        /\ ExitRow.quantity = call.args.position.quantity
        /\ ExitRow.reason = call.args.reason
        /\ ExitRow.fee = Zero
        /\ RoundedTo(ExitRow.pnl, ExactPnl, 8)
        /\ RoundedTo(ExitRow.pnl_pct, ExactPnlPct, 2)
        /\ (/\ call.args.position.entry_price = RInt(100)
            /\ SoldAt = RInt(101)
            /\ call.args.position.quantity = RInt(2))
           => (ExitRow.pnl = RInt(2) /\ ExitRow.pnl_pct = RInt(1))

\* a close whose percentage has more than two decimals: 102 sold at 100
C27_Witness ==
    /\ Closed
    /\ call.result.position = None
    /\ ExitRow.pnl_pct # ExactPnlPct
    /\ ExitRow.pnl_pct = R(-196, 100)

\* C28: calculate_tp_sl(entry_price) returns the entry price raised by
\* take_profit_pct percent and the entry price lowered by stop_loss_pct
\* percent; with 1.2 and 0.6 and an entry of 50000 these are 50600 and 49700.
C28_TpSlFormula ==
    Done("calculate_tp_sl") =>
        LET e == call.args.entry_price
        IN  /\ RSub(call.result.take_profit, e) = RDiv(RMul(e, take_profit_pct), RInt(100))
            /\ RSub(e, call.result.stop_loss) = RDiv(RMul(e, stop_loss_pct), RInt(100))
            /\ (take_profit_pct = R(12, 10) /\ stop_loss_pct = R(6, 10) /\ e = RInt(50000))
               => (/\ call.result.take_profit = RInt(50600)
                   /\ call.result.stop_loss = RInt(49700))

\* the levels of an entry at 50000
C28_Witness ==
    /\ Done("calculate_tp_sl")
    /\ call.args.entry_price = RInt(50000)
    /\ call.result = [take_profit |-> RInt(50600), stop_loss |-> RInt(49700)]

\* C29: the RSI is undefined (NaN) at each of the first `period` bars of the
\* series, bars 0 .. period-1 (1 .. period counted from one).
C29_RsiUndefinedFirstPeriodBars ==
    Done("calculate_rsi") =>
        \A i \in 1..len(call.args.df) : i <= call.args.period => IsNaN(call.result[i])

(***************************************************************************)
(* The exit evaluation and the stored levels, checked under Spec.          *)
(***************************************************************************)
\* C30: for every live position and every price get_current_price can
\* return, the exit evaluation of check_and_manage_position decides
\* STOP_LOSS exactly when the price is at or below the stop_loss stored in
\* the position (the level it compares against is the stored one).
C30_StopFiresAtStoredLevel ==
    position # None =>
        \A current_price \in Prices :
            (should_exit(current_price, position.entry_price,
                         now - position.entry_time, None).reason = "STOP_LOSS")
            <=> RLe(current_price, position.stop_loss)

(***************************************************************************)
(* The sizer against validate_trade, checked under SpecSizer.              *)
(***************************************************************************)
\* C34: every nonzero quantity calculate_position_size returns passes
\* validate_trade for the same entry price, balance and min_notional (its
\* notional is at least min_notional and at most the balance).
C34_SizedQuantityValidates ==
    (SizerDone /\ ~call.result.raised /\ call.result.quantity # Zero) =>
        validate_trade(call.result.quantity, call.entry_price, call.balance,
                       call.min_notional)

(***************************************************************************)
(* The order of the trade events, checked under Spec.                      *)
(***************************************************************************)
BetweenTicks == pc \in {"manage", "sleep", "interrupted", "stopped"}

SellExecuted == \E i \in DOMAIN orders : orders[i].side = "SELL" /\ orders[i].filled

\* C31: over the whole run (every iteration and the shutdown handler) at
\* most one sell order is executed for a position (no second sell is executed
\* for a position that a first executed sell did not clear).
C31_OneSellPerPosition == sells <= 1

\* C33: in an iteration that starts with a position held for at least
\* max_duration_minutes, once the price fetch has succeeded and the sell has
\* been executed the position is closed, whether the kline fetch failed or
\* not.
C33_TimeExitCloses ==
    (/\ InLoop
     /\ tick.start_position # None
     /\ now - tick.start_position.entry_time >= max_duration_minutes
     /\ DidAny("fetch.manage.klines")
     /\ SellExecuted)
    => (Did("close", "closed") /\ Logged("EXIT"))

=============================================================================
